---------------------------- MODULE Spec2Model ----------------------------
(***************************************************************************)
(* Model of the ecommerce search demo: the synthetic log generator of      *)
(* generate_data.py (generate_ecommerce_search_logs and its __main__) and  *)
(* the Streamlit script app.py (generate_synthetic_data, load_data,        *)
(* enrich_with_price_and_revenue, the sidebar filters and the summary      *)
(* metrics).                                                               *)
(*                                                                         *)
(* Times are integers counting minutes, a date is time \div 1440.  Money   *)
(* is an integer number of cents (the code rounds prices to 2 decimals).   *)
(* A probability is an integer percentage.  A random draw is a percentage  *)
(* u in 0..99 standing for the uniform variate u/100; each distribution    *)
(* is obtained from u by its inverse distribution function.                *)
(***************************************************************************)
EXTENDS Integers, Sequences, FiniteSets, TLC

VARIABLES
    prog,        \* which script is running: "generate_data" or "app"
    pc,          \* position in that script
    clock,       \* wall clock, in minutes
    seeded,      \* output stream of np.random.default_rng(42), one period
    rng_pos,     \* draws taken from the rng of the current call
    grandom,     \* output stream of the process-wide `random` module
    random_pos,  \* draws taken from the `random` module since import
    n_rows,      \* argument of generate_ecommerce_search_logs
    days_back,   \* argument of generate_ecommerce_search_logs
    base_time,   \* local of generate_ecommerce_search_logs
    now,         \* the clock as read by the current generation call
    i,           \* loop index of generate_ecommerce_search_logs
    records,     \* rows built so far by the call
    calls,       \* number of calls of generate_ecommerce_search_logs made
    prev,        \* what the previous call returned, None before it
    error,       \* the exception that ended the script, NoError otherwise
    file,        \* ecommerce_search_logs.csv
    cache,       \* st.cache_data entry of load_data, None when empty
    df,          \* the dataframe of the app script
    widgets,     \* values of the sidebar widgets
    df_filt,     \* the filtered dataframe
    metrics      \* the summary metrics

vars == <<prog, pc, clock, seeded, rng_pos, grandom, random_pos, n_rows,
          days_back, base_time, now, i, records, calls, prev, error,
          file, cache, df, widgets, df_filt, metrics>>

genVars == <<seeded, rng_pos, grandom, random_pos, n_rows, days_back,
             base_time, now, i, records, calls, prev>>

appVars == <<cache, df, widgets, df_filt, metrics>>

\* An optional value is None or Some(v); Python's None, NaN and the empty
\* csv cell are all None.
None == <<>>
Some(v) == <<v>>
NoError == ""

-----------------------------------------------------------------------------
(* Bounds of the model *)

MaxRows == 2          \* largest n_rows; stands for the defaults 800 and 2000
MaxDays == 1          \* largest days_back; stands for the default 30
MaxCalls == 2         \* calls of the generator in one process
MaxElapsed == 1       \* minutes that may pass between two calls
StreamPeriod == 3     \* period of the modelled random streams

MinutesPerDay == 1440
DaysWindow == 30

\* The clock when the process starts: one minute past midnight.
Epoch == 40 * MinutesPerDay + 1

\* Uniform variates (percent) the seeded numpy generator may produce.
SeededDraws == {2, 25, 50}
\* Uniform variates (percent) the `random` module may produce.
RandomDraws == {2, 90}

Streams(S) == [1..StreamPeriod -> S]

\* The k-th output (k = 0, 1, ...) of a stream.
Raw(stream, k) == stream[(k % StreamPeriod) + 1]

Min(a, b) == IF a < b THEN a ELSE b
Max(a, b) == IF a > b THEN a ELSE b

DateOf(t) == t \div MinutesPerDay

-----------------------------------------------------------------------------
(* Distributions, each from a uniform variate u (percent) *)

\* rng.random() < p, random.random() < p, with p a percentage
Below(u, p) == u < p

\* rng.integers(low, high): low <= result < high
Integers_(u, low, high) == low + (u * (high - low)) \div 100

\* random.randint(a, b): a <= result <= b; needs a <= b
RandInt(u, a, b) == a + (u * (b - a + 1)) \div 100

\* random.choice(seq), rng.choice(seq)
Choice(u, seq) == seq[(u * Len(seq)) \div 100 + 1]

\* round(rng.uniform(low, high), 2), in cents
UniformCents(u, low, high) == low * 100 + (high - low) * u

-----------------------------------------------------------------------------
(* generate_data.py: tables *)

queries == <<
    "running shoes", "sneakers", "winter jacket", "jeans", "t shirt",
    "lipstick", "moisturizer", "perfume",
    "gaming mouse", "wireless keyboard", "earbuds", "smart watch",
    "coffee maker", "blender", "vacuum cleaner",
    "dog food", "cat litter", "yoga mat" >>

categories(q) ==
    CASE q \in {"running shoes", "yoga mat"} -> "Sportswear"
      [] q = "sneakers" -> "Footwear"
      [] q \in {"winter jacket", "jeans", "t shirt"} -> "Apparel"
      [] q \in {"lipstick", "moisturizer", "perfume"} -> "Beauty"
      [] q \in {"gaming mouse", "wireless keyboard", "earbuds", "smart watch"}
            -> "Electronics"
      [] q \in {"coffee maker", "blender", "vacuum cleaner"} -> "Home Appliances"
      [] q \in {"dog food", "cat litter"} -> "Pet Supplies"

price_ranges(c) ==
    CASE c = "Sportswear" -> <<40, 180>>
      [] c = "Footwear" -> <<50, 200>>
      [] c = "Apparel" -> <<20, 150>>
      [] c = "Beauty" -> <<8, 80>>
      [] c = "Electronics" -> <<25, 250>>
      [] c = "Home Appliances" -> <<35, 300>>
      [] c = "Pet Supplies" -> <<10, 120>>

noisy_variants(q) ==
    CASE q = "running shoes" -> "runing shoes"
      [] q = "sneakers" -> "sneeker"
      [] q = "winter jacket" -> "winter jaket"
      [] q = "t shirt" -> "t-shirt"
      [] q = "earbuds" -> "ear buds"
      [] OTHER -> q

base_click_prob(c) ==
    CASE c = "Electronics" -> 80
      [] c = "Beauty" -> 75
      [] c = "Sportswear" -> 70
      [] c = "Footwear" -> 70
      [] c = "Apparel" -> 65
      [] c = "Home Appliances" -> 60
      [] c = "Pet Supplies" -> 60

bad_queries == {"t shirt", "blender", "cat litter"}

GenCols == {"timestamp", "session_id", "user_id", "query", "normalized_query",
            "category", "clicked", "click_position", "purchased", "product_id",
            "price", "revenue", "no_result"}

AppCols == {"timestamp", "query", "clicked", "added_to_cart", "purchased",
            "country", "device"}

\* A row holds every column of either dataset; a column the dataset does
\* not have (see its cols) is None in every row.
BlankRow ==
    [timestamp |-> None, session_id |-> None, user_id |-> None,
     query |-> None, normalized_query |-> None, category |-> None,
     clicked |-> None, click_position |-> None, purchased |-> None,
     product_id |-> None, price |-> None, revenue |-> None,
     no_result |-> None, added_to_cart |-> None, country |-> None,
     device |-> None]

-----------------------------------------------------------------------------
(* generate_data.py: one iteration of the loop of                          *)
(* generate_ecommerce_search_logs.  g is the `random` module's stream read *)
(* from position gp, s the seeded generator's stream read from position p. *)
(* The result is the record appended and the new position of s.            *)

click_prob(category, normalized_query) ==
    IF normalized_query \in bad_queries
    THEN base_click_prob(category) - 20
    ELSE base_click_prob(category)

base_purchase_prob(category) ==
    IF category \in {"Beauty", "Pet Supplies"} THEN 22 + 8 ELSE 22

\* The overrides with `purchased = False` forgotten.
NoResultOverride_KeepsPurchased(r) ==
    IF r.no_result = 1
    THEN [r EXCEPT !.clicked = FALSE, !.click_position = None,
                   !.revenue = 0, !.price = None]
    ELSE r

\* Lines 114-121: the overrides of a zero-result search.
NoResultOverride(r) ==
    IF r.no_result = 1
    THEN [r EXCEPT !.clicked = FALSE, !.purchased = FALSE,
                   !.click_position = None, !.revenue = 0, !.price = None]
    ELSE r

GenTimestamp(base, g, gp, db) ==
    base + RandInt(Raw(g, gp + 2), 0, db) * MinutesPerDay
         + RandInt(Raw(g, gp + 3), 0, MinutesPerDay)

GenerateRow(g, gp, s, p, base, db) ==
    LET query0 == Choice(Raw(g, gp), queries)
        category == categories(query0)
        noisy == Below(Raw(g, gp + 1), 10)
        normalized_query == query0
        query == IF noisy THEN noisy_variants(query0) ELSE query0
        timestamp == GenTimestamp(base, g, gp, db)
        session_id == <<"S", Integers_(Raw(s, p), 100000, 999999)>>
        user_id == Integers_(Raw(s, p + 1), 1000, 5000)
        clicked ==
            Below(Raw(s, p + 2),
                  Max(Min(click_prob(category, normalized_query), 95), 5))
        p3 == p + 3
        click_position ==
            IF clicked THEN Some(Integers_(Raw(s, p3), 1, 10)) ELSE None
        p4 == IF clicked THEN p3 + 1 ELSE p3
        purchased ==
            IF clicked
            THEN Below(Raw(s, p4), base_purchase_prob(category))
            ELSE FALSE
        p5 == IF clicked THEN p4 + 1 ELSE p4
        range == price_ranges(category)
        price ==
            IF purchased
            THEN Some(UniformCents(Raw(s, p5), range[1], range[2]))
            ELSE None
        p6 == IF purchased THEN p5 + 1 ELSE p5
        revenue == IF purchased THEN price[1] ELSE 0
        no_result == IF Below(Raw(s, p6), 5) THEN 1 ELSE 0
        p7 == p6 + 1
        drawn == [clicked |-> clicked, click_position |-> click_position,
                  purchased |-> purchased, price |-> price,
                  revenue |-> revenue, no_result |-> no_result]
        o == NoResultOverride(drawn)
        product_id ==
            IF o.purchased
            THEN Some(<<"P", Integers_(Raw(s, p7), 10000, 99999)>>)
            ELSE None
        p8 == IF o.purchased THEN p7 + 1 ELSE p7
    IN  [row |-> [BlankRow EXCEPT
                    !.timestamp = timestamp,
                    !.session_id = session_id,
                    !.user_id = user_id,
                    !.query = query,
                    !.normalized_query = normalized_query,
                    !.category = category,
                    !.clicked = IF o.clicked THEN 1 ELSE 0,
                    !.click_position = o.click_position,
                    !.purchased = IF o.purchased THEN 1 ELSE 0,
                    !.product_id = product_id,
                    !.price = o.price,
                    !.revenue = o.revenue,
                    !.no_result = o.no_result],
         pos |-> p8]

-----------------------------------------------------------------------------
(* The persisted file *)

\* kind: "missing", "zero" (zero bytes), "blank" (bytes but no columns:
\* read_csv raises EmptyDataError) or "csv" (a header and rows).  The
\* content of a csv file is modelled by the table it holds; None is the
\* empty cell.
NoData == [cols |-> {}, rows |-> <<>>]
FileOf(kind) == [kind |-> kind, data |-> NoData]
ToCsv(cols, rows) == [kind |-> "csv", data |-> [cols |-> cols, rows |-> rows]]

-----------------------------------------------------------------------------
(* generate_data.py: actions *)

\* A call generate_ecommerce_search_logs(n, d): lines 6-50.
Call ==
    /\ prog = "generate_data"
    /\ pc = "idle"
    /\ \E n \in -1..MaxRows, d \in -1..MaxDays :
        /\ n_rows' = n
        /\ days_back' = d
        /\ base_time' = clock - d * MinutesPerDay
    /\ now' = clock
    /\ rng_pos' = 0
    /\ i' = 0
    /\ records' = <<>>
    /\ calls' = calls + 1
    /\ pc' = "loop"
    /\ UNCHANGED <<prog, clock, seeded, grandom, random_pos, prev, error,
                   file>>
    /\ UNCHANGED appVars

\* One iteration of the loop, lines 51-139.  random.randint(0, days_back)
\* raises ValueError when days_back < 0, after random.choice and
\* random.random have been drawn.
LoopRow ==
    /\ prog = "generate_data"
    /\ pc = "loop"
    /\ i < n_rows
    /\ days_back >= 0
    /\ LET r == GenerateRow(grandom, random_pos, seeded, rng_pos,
                            base_time, days_back)
       IN  /\ records' = Append(records, r.row)
           /\ rng_pos' = r.pos
    /\ random_pos' = random_pos + 4
    /\ i' = i + 1
    /\ UNCHANGED <<prog, pc, clock, seeded, grandom, n_rows, days_back,
                   base_time, now, calls, prev, error, file>>
    /\ UNCHANGED appVars

LoopRaise ==
    /\ prog = "generate_data"
    /\ pc = "loop"
    /\ i < n_rows
    /\ days_back < 0
    /\ random_pos' = random_pos + 2
    /\ pc' = "raised"
    /\ error' = "ValueError"
    /\ UNCHANGED <<prog, clock, seeded, rng_pos, grandom, n_rows, days_back,
                   base_time, now, i, records, calls, prev, file>>
    /\ UNCHANGED appVars

\* The loop is over (at once when n_rows <= 0): lines 141-142.
Return ==
    /\ prog = "generate_data"
    /\ pc = "loop"
    /\ ~(i < n_rows)
    /\ pc' = "returned"
    /\ UNCHANGED <<prog, clock, error, file>>
    /\ UNCHANGED genVars
    /\ UNCHANGED appVars

\* The same process calls the generator again with the same arguments,
\* some time later.  The rng is created anew with seed 42; the `random`
\* module keeps its state.
CallAgain ==
    /\ prog = "generate_data"
    /\ pc = "returned"
    /\ calls < MaxCalls
    /\ prev' = Some(records)
    /\ \E e \in 0..MaxElapsed :
        /\ clock' = clock + e
        /\ now' = clock + e
        /\ base_time' = (clock + e) - days_back * MinutesPerDay
    /\ rng_pos' = 0
    /\ i' = 0
    /\ records' = <<>>
    /\ calls' = calls + 1
    /\ pc' = "loop"
    /\ UNCHANGED <<prog, seeded, grandom, random_pos, n_rows, days_back,
                   error, file>>
    /\ UNCHANGED appVars

\* __main__, lines 145-148: the call with the default arguments, written
\* to ecommerce_search_logs.csv.
MainWrite ==
    /\ prog = "generate_data"
    /\ pc = "returned"
    /\ calls = 1
    /\ n_rows = MaxRows
    /\ days_back = MaxDays
    /\ file' = ToCsv(GenCols, records)
    /\ pc' = "written"
    /\ UNCHANGED <<prog, clock, error>>
    /\ UNCHANGED genVars
    /\ UNCHANGED appVars

-----------------------------------------------------------------------------
(* app.py: generate_synthetic_data *)

DefaultRows == 1      \* rows load_data asks for; stands for the default 2000

app_queries == <<
    "running shoes", "wireless headphones", "laptop bag", "phone charger",
    "coffee mug", "office chair", "gaming keyboard", "baby stroller",
    "winter jacket", "smartwatch", "Smart phone" >>
countries == <<"Canada", "USA", "UK", "Germany", "India", "Brazil", "Kenya">>
devices == <<"mobile", "desktop", "tablet", "cloth", "gaming machine">>

Range(seq) == {seq[k] : k \in DOMAIN seq}

\* The draws enumerated for each column.  numpy's vectorised draws take a
\* data-dependent number of generator outputs (rng.gamma is a rejection
\* sampler), so the columns are independent draws here.
MinuteDraws == {m \in {0, 2} : m < 60 * 24 * DaysWindow}
QueryDraws == {q \in Range(app_queries) : q \in {"running shoes", "Smart phone"}}
CountryDraws == {c \in Range(countries) : c = "Canada"}
DeviceDraws == {d \in Range(devices) : d = "mobile"}
CartDraws == {0}

\* One row of the frame, lines 24-58.  The columns the script never
\* computes with (session_id, user_id, n_results, dwell_time_sec) are left
\* out.
SyntheticRows(t) ==
    { [BlankRow EXCEPT !.timestamp = t - m, !.query = q, !.clicked = c,
                       !.added_to_cart = a, !.purchased = p,
                       !.country = co, !.device = de] :
        m \in MinuteDraws, q \in QueryDraws, c \in {0, 1}, a \in CartDraws,
        p \in {0, 1}, co \in CountryDraws, de \in DeviceDraws }

\* The frames generate_synthetic_data(n) can return at time t.
generate_synthetic_data(n, t) ==
    { [cols |-> AppCols, rows |-> rows] : rows \in [1..n -> SyntheticRows(t)] }

-----------------------------------------------------------------------------
(* app.py: load_data *)

\* pd.read_csv(CSV_PATH, parse_dates=["timestamp"]) of a file that exists
\* and is not zero bytes long.
ReadCsv(f) ==
    IF f.kind = "blank" THEN [raised |-> "EmptyDataError", data |-> NoData]
    ELSE IF "timestamp" \notin f.data.cols
    THEN [raised |-> "ValueError", data |-> NoData]
    ELSE [raised |-> NoError, data |-> f.data]

\* load_data with the to_csv of the last handler forgotten.
load_data_NoRewrite(f, gen) ==
    IF f.kind = "missing" \/ f.kind = "zero"
    THEN [df |-> gen, file |-> ToCsv(gen.cols, gen.rows)]
    ELSE LET r == ReadCsv(f)
         IN  IF r.raised = "EmptyDataError"
             THEN [df |-> gen, file |-> ToCsv(gen.cols, gen.rows)]
             ELSE IF r.raised # NoError
             THEN [df |-> gen, file |-> f]
             ELSE [df |-> r.data, file |-> f]

\* The body of load_data, lines 66-93; gen is the frame
\* generate_synthetic_data returns if it is called.  The result is the
\* frame returned and the file left behind.
load_data(f, gen) ==
    IF f.kind = "missing" \/ f.kind = "zero"
    THEN [df |-> gen, file |-> ToCsv(gen.cols, gen.rows)]
    ELSE LET r == ReadCsv(f)
         IN  IF r.raised = "EmptyDataError"
             THEN [df |-> gen, file |-> ToCsv(gen.cols, gen.rows)]
             ELSE IF r.raised # NoError
             THEN [df |-> gen, file |-> ToCsv(gen.cols, gen.rows)]
             ELSE [df |-> r.data, file |-> f]

-----------------------------------------------------------------------------
(* app.py: enrich_with_price_and_revenue *)

base_prices(q) ==
    CASE q = "running shoes" -> Some(90)
      [] q = "wireless headphones" -> Some(120)
      [] q = "laptop bag" -> Some(45)
      [] q = "phone charger" -> Some(25)
      [] q = "coffee mug" -> Some(15)
      [] q = "office chair" -> Some(180)
      [] q = "gaming keyboard" -> Some(85)
      [] q = "baby stroller" -> Some(220)
      [] q = "winter jacket" -> Some(160)
      [] q = "smartwatch" -> Some(250)
      [] q = "Smart phone" -> Some(750)
      [] OTHER -> None

FillNa(v, d) == IF v = None THEN d ELSE v[1]

\* (base * rng.uniform(0.9, 1.1)).round(2) in cents, the variate being
\* u/100: base * (0.9 + 0.2 * u / 100) * 100.
NoisyPrice(base, u) == (base * (900 + 2 * u)) \div 10

NoiseDraws == {0, 50}

\* revenue = price, whatever purchased is
Times_IgnoresPurchased(price, purchased) ==
    IF price = None THEN None ELSE price[1]

\* price * purchased of two cells
Times(price, purchased) == IF price = None THEN None ELSE price[1] * purchased

\* Lines 119-132 for one row, u being the variate of its price noise.
EnrichRow(cols, r, u) ==
    LET r1 == IF "price" \notin cols
              THEN [r EXCEPT !.price =
                       Some(NoisyPrice(FillNa(base_prices(r.query), 50), u))]
              ELSE r
    IN  IF "purchased" \in cols /\ "revenue" \notin cols
        THEN [r1 EXCEPT !.revenue = Times(r1.price, r1.purchased)]
        ELSE IF "revenue" \notin cols
        THEN [r1 EXCEPT !.revenue = 0]
        ELSE r1

\* noise[k] is the variate rng.uniform draws for row k.
enrich_with_price_and_revenue(d, noise) ==
    [cols |-> d.cols \cup {"price", "revenue"},
     rows |-> [k \in DOMAIN d.rows |-> EnrichRow(d.cols, d.rows[k], noise[k])]]

-----------------------------------------------------------------------------
(* app.py: the sidebar filters, lines 157-205 *)

\* The characters of the texts that occur in the model.
Chars(s) ==
    CASE s = "" -> <<>>
      [] s = " " -> <<" ">>
      [] s = "zzz" -> <<"z", "z", "z">>
      [] s = " PHONE" -> <<" ", "P", "H", "O", "N", "E">>
      [] s = "shoes" -> <<"s", "h", "o", "e", "s">>
      [] s = "running shoes" ->
            <<"r", "u", "n", "n", "i", "n", "g", " ", "s", "h", "o", "e", "s">>
      [] s = "Smart phone" ->
            <<"S", "m", "a", "r", "t", " ", "p", "h", "o", "n", "e">>

LowerChar(c) ==
    CASE c = "S" -> "s" [] c = "P" -> "p" [] c = "H" -> "h"
      [] c = "O" -> "o" [] c = "N" -> "n" [] c = "E" -> "e"
      [] OTHER -> c

Lower(cs) == [k \in DOMAIN cs |-> LowerChar(cs[k])]

RECURSIVE LStrip(_)
LStrip(cs) ==
    IF cs # <<>> /\ Head(cs) = " " THEN LStrip(Tail(cs)) ELSE cs

RECURSIVE RStrip(_)
RStrip(cs) ==
    IF cs # <<>> /\ cs[Len(cs)] = " "
    THEN RStrip(SubSeq(cs, 1, Len(cs) - 1))
    ELSE cs

\* str.strip()
Strip(cs) == RStrip(LStrip(cs))

\* Series.str.contains(pat, case=False, na=False) for a pattern without
\* regular-expression operators
Contains(cell, pat) ==
    LET h == Lower(Chars(cell))
        n == Lower(pat)
    IN  \E k \in 0..(Len(h) - Len(n)) : SubSeq(h, k + 1, k + Len(n)) = n

SearchTexts == {"", " ", " PHONE", "zzz"}

RECURSIVE SeqMin(_)
SeqMin(ts) ==
    IF Len(ts) = 1 THEN ts[1] ELSE Min(ts[1], SeqMin(Tail(ts)))

RECURSIVE SeqMax(_)
SeqMax(ts) ==
    IF Len(ts) = 1 THEN ts[1] ELSE Max(ts[1], SeqMax(Tail(ts)))

Column(d, c) == [k \in DOMAIN d.rows |-> d.rows[k][c]]

min_date(d) == DateOf(SeqMin(Column(d, "timestamp")))
max_date(d) == DateOf(SeqMax(Column(d, "timestamp")))

\* What the sidebar can return for a frame: the date range is a pair
\* within [min_date, max_date] or a single date, a multiselect returns a
\* subset of the values of its column, the text input one of SearchTexts.
WidgetValues(d) ==
    LET dates == min_date(d)..max_date(d)
    IN  { [is_tuple |-> t, start_date |-> s, end_date |-> e,
           country_filter |-> cf, device_filter |-> df_, query_search |-> q] :
            t \in BOOLEAN, s \in dates, e \in dates,
            cf \in SUBSET Range(Column(d, "country")),
            df_ \in SUBSET Range(Column(d, "device")),
            q \in SearchTexts }

NoWidgets ==
    [is_tuple |-> TRUE, start_date |-> 0, end_date |-> 0,
     country_filter |-> {}, device_filter |-> {}, query_search |-> ""]

\* The mask with the timestamp itself compared to the dates (midnight).
DateMask_ByTimestamp(r, w) ==
    /\ r.timestamp >= w.start_date * MinutesPerDay
    /\ r.timestamp <= w.end_date * MinutesPerDay

\* Lines 191-194: the date mask of one row.
DateMask(r, w) ==
    DateOf(r.timestamp) >= w.start_date /\ DateOf(r.timestamp) <= w.end_date

\* Lines 191-203: the mask of one row.
Mask(r, w) ==
    /\ DateMask(r, w)
    /\ (w.country_filter # {} => r.country \in w.country_filter)
    /\ (w.device_filter # {} => r.device \in w.device_filter)
    /\ (Strip(Chars(w.query_search)) # <<>>
            => Contains(r.query, Strip(Chars(w.query_search))))

RECURSIVE SelectRows(_, _)
SelectRows(rows, w) ==
    IF rows = <<>> THEN <<>>
    ELSE IF Mask(Head(rows), w)
    THEN <<Head(rows)>> \o SelectRows(Tail(rows), w)
    ELSE SelectRows(Tail(rows), w)

\* Line 205: df[mask].copy()
Filtered(d, w) == [cols |-> d.cols, rows |-> SelectRows(d.rows, w)]

\* The script without lines 207-209.
AfterFilter_NeverStops(filt) == "summary"

\* Lines 207-209: an empty result stops the script after a warning.
AfterFilter(filt) == IF filt.rows = <<>> THEN "stopped" ELSE "summary"

-----------------------------------------------------------------------------
(* app.py: the summary metrics, lines 216-222 *)

RECURSIVE Sum(_)
Sum(xs) == IF xs = <<>> THEN 0 ELSE Head(xs) + Sum(Tail(xs))

\* A rate is the fraction num/den.
Fraction(n, d) == [num |-> n, den |-> d]
FractionEq(a, b) == a.num * b.den = b.num * a.den

\* The mean without the factor 100.
RatePercent_Unscaled(d, c) ==
    IF Len(d.rows) # 0
    THEN Fraction(Sum(Column(d, c)), Len(d.rows))
    ELSE Fraction(0, 1)

\* Series.mean() * 100 of a 0/1 column when there are rows, else 0
RatePercent(d, c) ==
    IF Len(d.rows) # 0
    THEN Fraction(Sum(Column(d, c)) * 100, Len(d.rows))
    ELSE Fraction(0, 1)

SummaryMetrics(d) ==
    [total_searches |-> Len(d.rows),
     click_through_rate |-> RatePercent(d, "clicked"),
     add_to_cart_rate |-> RatePercent(d, "added_to_cart"),
     purchase_rate |-> RatePercent(d, "purchased"),
     total_sales |-> Sum(Column(d, "purchased")),
     total_revenue |-> Sum(Column(d, "revenue"))]

SummaryCols == {"clicked", "added_to_cart", "purchased", "revenue"}

-----------------------------------------------------------------------------
(* Files the app may find when it starts *)

\* Two events as an earlier run of the app would have written them.
TwoEvents ==
    ToCsv(AppCols,
          << [BlankRow EXCEPT !.timestamp = Epoch - 2,
                !.query = "running shoes", !.clicked = 1,
                !.added_to_cart = 1, !.purchased = 1,
                !.country = "Canada", !.device = "mobile"],
             [BlankRow EXCEPT !.timestamp = Epoch,
                !.query = "Smart phone", !.clicked = 0,
                !.added_to_cart = 0, !.purchased = 0,
                !.country = "Kenya", !.device = "tablet"] >>)

\* A header and no rows.
HeaderOnly == ToCsv(AppCols, <<>>)

\* A table without a timestamp column: parse_dates makes read_csv raise.
NoTimestamp ==
    ToCsv(AppCols \ {"timestamp"},
          << [BlankRow EXCEPT !.query = "shoes", !.clicked = 1,
                !.added_to_cart = 0, !.purchased = 0,
                !.country = "Canada", !.device = "mobile"] >>)

\* A table without a purchased column and with a query of no base price.
NoPurchased ==
    ToCsv(AppCols \ {"purchased"},
          << [BlankRow EXCEPT !.timestamp = Epoch, !.query = "shoes",
                !.clicked = 1, !.added_to_cart = 0,
                !.country = "Canada", !.device = "mobile"] >>)

InitialFiles ==
    {FileOf("missing"), FileOf("zero"), FileOf("blank"),
     TwoEvents, HeaderOnly, NoTimestamp, NoPurchased}

-----------------------------------------------------------------------------
(* app.py: actions, one run of the script from top to bottom *)

\* The script starts after generate_data.py has written its file.
AppStart ==
    /\ prog = "generate_data"
    /\ pc = "written"
    /\ prog' = "app"
    /\ pc' = "start"
    /\ UNCHANGED <<clock, error, file>>
    /\ UNCHANGED genVars
    /\ UNCHANGED appVars

\* Line 145, load_data() answered by st.cache_data.
LoadCached ==
    /\ prog = "app"
    /\ pc = "start"
    /\ cache # None
    /\ df' = cache[1]
    /\ pc' = "loaded"
    /\ UNCHANGED <<prog, clock, error, file, cache, widgets, df_filt, metrics>>
    /\ UNCHANGED genVars

\* Line 145, load_data() run and its result cached.
LoadData ==
    /\ prog = "app"
    /\ pc = "start"
    /\ cache = None
    /\ \E gen \in generate_synthetic_data(DefaultRows, clock) :
        LET r == load_data(file, gen)
        IN  /\ df' = r.df
            /\ file' = r.file
            /\ cache' = Some(r.df)
    /\ pc' = "loaded"
    /\ UNCHANGED <<prog, clock, error, widgets, df_filt, metrics>>
    /\ UNCHANGED genVars

\* Lines 147-149: an empty frame stops the script.
StopEmpty ==
    /\ prog = "app"
    /\ pc = "loaded"
    /\ df.rows = <<>>
    /\ pc' = "stopped"
    /\ UNCHANGED <<prog, clock, error, file>>
    /\ UNCHANGED genVars
    /\ UNCHANGED appVars

\* Line 152.
Enrich ==
    /\ prog = "app"
    /\ pc = "loaded"
    /\ df.rows # <<>>
    /\ \E noise \in [DOMAIN df.rows -> NoiseDraws] :
        df' = enrich_with_price_and_revenue(df, noise)
    /\ pc' = "enriched"
    /\ UNCHANGED <<prog, clock, error, file, cache, widgets, df_filt, metrics>>
    /\ UNCHANGED genVars

\* Lines 157-188: the widgets return their values.
Sidebar ==
    /\ prog = "app"
    /\ pc = "enriched"
    /\ {"country", "device"} \subseteq df.cols
    /\ \E w \in WidgetValues(df) :
        /\ w.start_date <= w.end_date
        /\ (~w.is_tuple => w.start_date = w.end_date)
        /\ widgets' = w
    /\ pc' = "filters"
    /\ UNCHANGED <<prog, clock, error, file, cache, df, df_filt, metrics>>
    /\ UNCHANGED genVars

\* Lines 173-183: df["country"] or df["device"] of a frame without it.
SidebarKeyError ==
    /\ prog = "app"
    /\ pc = "enriched"
    /\ ~({"country", "device"} \subseteq df.cols)
    /\ pc' = "raised"
    /\ error' = "KeyError"
    /\ UNCHANGED <<prog, clock, file>>
    /\ UNCHANGED genVars
    /\ UNCHANGED appVars

\* Lines 190-209.
Filter ==
    /\ prog = "app"
    /\ pc = "filters"
    /\ df_filt' = Some(Filtered(df, widgets))
    /\ pc' = AfterFilter(Filtered(df, widgets))
    /\ UNCHANGED <<prog, clock, error, file, cache, df, widgets, metrics>>
    /\ UNCHANGED genVars

\* Lines 216-222.
Summary ==
    /\ prog = "app"
    /\ pc = "summary"
    /\ SummaryCols \subseteq df_filt[1].cols
    /\ metrics' = Some(SummaryMetrics(df_filt[1]))
    /\ pc' = "done"
    /\ UNCHANGED <<prog, clock, error, file, cache, df, widgets, df_filt>>
    /\ UNCHANGED genVars

\* Lines 217-221: a column of the metrics that the frame does not have.
SummaryKeyError ==
    /\ prog = "app"
    /\ pc = "summary"
    /\ ~(SummaryCols \subseteq df_filt[1].cols)
    /\ pc' = "raised"
    /\ error' = "KeyError"
    /\ UNCHANGED <<prog, clock, file>>
    /\ UNCHANGED genVars
    /\ UNCHANGED appVars

\* Streamlit runs the script again from the top (a widget changed); the
\* cache and the file stay.
Rerun ==
    /\ prog = "app"
    /\ pc \in {"done", "stopped", "raised"}
    /\ pc' = "start"
    /\ error' = NoError
    /\ df' = NoData
    /\ widgets' = NoWidgets
    /\ df_filt' = None
    /\ metrics' = None
    /\ UNCHANGED <<prog, clock, file, cache>>
    /\ UNCHANGED genVars

-----------------------------------------------------------------------------

NoStream == [k \in 1..StreamPeriod |-> 0]

Init ==
    /\ clock = Epoch
    /\ rng_pos = 0
    /\ random_pos = 0
    /\ n_rows = 0
    /\ days_back = 0
    /\ base_time = 0
    /\ now = 0
    /\ i = 0
    /\ records = <<>>
    /\ calls = 0
    /\ prev = None
    /\ error = NoError
    /\ cache = None
    /\ df = NoData
    /\ widgets = NoWidgets
    /\ df_filt = None
    /\ metrics = None
    /\ \/ /\ prog = "generate_data"
          /\ pc = "idle"
          /\ seeded \in Streams(SeededDraws)
          /\ grandom \in Streams(RandomDraws)
          /\ file = FileOf("missing")
       \/ /\ prog = "app"
          /\ pc = "start"
          /\ seeded = NoStream
          /\ grandom = NoStream
          /\ file \in InitialFiles

Next ==
    \/ Call
    \/ LoopRow
    \/ LoopRaise
    \/ Return
    \/ CallAgain
    \/ MainWrite
    \/ AppStart
    \/ LoadCached
    \/ LoadData
    \/ StopEmpty
    \/ Enrich
    \/ Sidebar
    \/ SidebarKeyError
    \/ Filter
    \/ Summary
    \/ SummaryKeyError
    \/ Rerun

Spec == Init /\ [][Next]_vars

-----------------------------------------------------------------------------
(* Properties *)

Rows(d) == Range(d.rows)

AppLoadStep == prog = "app" /\ pc = "start" /\ pc' # "start"

\* The file cannot be used: it is missing, zero bytes long, or read_csv
\* raises on it.
Unreadable(f) ==
    \/ f.kind \in {"missing", "zero", "blank"}
    \/ f.kind = "csv" /\ "timestamp" \notin f.data.cols

\* C1: a call of load_data never raises.  On a file that is missing,
\* zero-length or fails to parse it returns a fresh synthetic dataset and
\* leaves the file holding exactly that dataset; on a file that parses it
\* returns the file's table and leaves the file as it was.
C1_LoadOrGenerate ==
    [][AppLoadStep =>
        /\ pc' = "loaded"
        /\ error' = NoError
        /\ IF Unreadable(file)
           THEN /\ df' \in generate_synthetic_data(DefaultRows, clock)
                /\ file' = ToCsv(df'.cols, df'.rows)
           ELSE /\ df' = file.data
                /\ file' = file]_vars

\* C1 witness: load_data has returned a generated dataset and the file,
\* which is none of the files the script could have started with, holds it.
C1_Regenerated ==
    /\ prog = "app"
    /\ pc = "loaded"
    /\ df \in generate_synthetic_data(DefaultRows, clock)
    /\ file = ToCsv(df.cols, df.rows)
    /\ file \notin InitialFiles
    /\ cache = Some(df)

\* C2: in every dataset a generator has produced, a purchased event is a
\* clicked event.
C2_PurchasedImpliesClicked ==
    /\ \A r \in Range(records) : r.purchased = 1 => r.clicked = 1
    /\ (prog = "app" /\ {"purchased", "clicked"} \subseteq df.cols)
        => \A r \in Rows(df) : r.purchased = 1 => r.clicked = 1

\* C3: every event of generate_ecommerce_search_logs with no_result = 1
\* has clicked = 0, purchased = 0, no click position, no price, revenue 0
\* and no product id.
C3_NoResultOverrides ==
    \A r \in Range(records) :
        r.no_result = 1 =>
            /\ r.clicked = 0
            /\ r.purchased = 0
            /\ r.click_position = None
            /\ r.price = None
            /\ r.revenue = 0
            /\ r.product_id = None

\* C3 witness: the only row of the call took seven draws of the seeded
\* generator (session, user, click, position, purchase, price, no-result:
\* it was drawn clicked and purchased) and is a zero-result search.
C3_OverrideAfterPurchase ==
    /\ prog = "generate_data"
    /\ Len(records) = 1
    /\ rng_pos = 7
    /\ records[1].no_result = 1

\* revenue = price if purchased else 0, for a row of a frame with columns
\* cols
RevenueLaw(cols, r) ==
    IF "purchased" \in cols /\ r.purchased = 1
    THEN Some(r.revenue) = r.price
    ELSE r.revenue = 0

EnrichStep == prog = "app" /\ pc = "loaded" /\ pc' = "enriched"

\* C4 as stated: for every generated event and every event of an enriched
\* frame, revenue = price if purchased else 0, and price is null unless
\* the event is purchased.
C4_PriceNullUnlessPurchased ==
    /\ \A r \in Range(records) :
        /\ RevenueLaw(GenCols, r)
        /\ (r.purchased # 1 => r.price = None)
    /\ (prog = "app" /\ pc = "enriched" /\ "purchased" \in df.cols) =>
        \A r \in Rows(df) :
            /\ RevenueLaw(df.cols, r)
            /\ (r.purchased # 1 => r.price = None)

\* C4 amended: every event of generate_ecommerce_search_logs has
\* revenue = price if purchased else 0 and a null price unless purchased;
\* enrichment of a frame without price and revenue columns gives every
\* event a price, purchased or not, and revenue = price if purchased
\* else 0.
C4_RevenueLaw ==
    [][/\ \A r \in Range(records') :
            /\ RevenueLaw(GenCols, r)
            /\ (r.price = None <=> r.purchased # 1)
       /\ (EnrichStep /\ df.cols \cap {"price", "revenue"} = {}) =>
            \A r \in Rows(df') :
                /\ RevenueLaw(df'.cols, r)
                /\ r.price # None]_vars

\* C4 witness: an enriched frame that came without price and revenue holds
\* a purchased event and an event that is not purchased.
C4_EnrichedBoth ==
    /\ prog = "app"
    /\ pc = "enriched"
    /\ "added_to_cart" \in df.cols
    /\ \E r \in Rows(df) : r.purchased = 1 /\ r.revenue # 0
    /\ \E r \in Rows(df) : r.purchased = 0 /\ r.price # None

\* C5: a second call of the generator with the arguments of the first
\* returns the rows the first returned.
C5_Deterministic ==
    (prog = "generate_data" /\ pc = "returned" /\ prev # None)
        => records = prev[1]

\* C6: a call with n_rows < 0 or days_back < 0 does not return a dataset.
C6_InvalidArgument ==
    (prog = "generate_data" /\ calls > 0 /\ (n_rows < 0 \/ days_back < 0))
        => pc # "returned"

Zero(rate) == rate.num = 0

\* C7 as stated: a run whose filter matched no event ends with the summary
\* metrics computed over the empty frame, all of them 0.
C7_EmptyAggregated ==
    (/\ prog = "app"
     /\ pc \in {"stopped", "done"}
     /\ df_filt # None
     /\ df_filt[1].rows = <<>>)
        => /\ metrics # None
           /\ metrics[1].total_searches = 0
           /\ Zero(metrics[1].click_through_rate)
           /\ Zero(metrics[1].add_to_cart_rate)
           /\ Zero(metrics[1].purchase_rate)

\* C7 amended: when the filter matches no event the filtered frame is
\* empty, nothing is raised, and the script stops there: no summary
\* metrics are computed in that run.
C7_EmptyStops ==
    (prog = "app" /\ df_filt # None /\ df_filt[1].rows = <<>>)
        => /\ pc = "stopped"
           /\ error = NoError
           /\ metrics = None

\* C7 witness: a frame with rows was filtered to no rows.
C7_EmptySelection ==
    /\ prog = "app"
    /\ df.rows # <<>>
    /\ df_filt # None
    /\ df_filt[1].rows = <<>>

Blank(text) == \A k \in DOMAIN Chars(text) : Chars(text)[k] = " "

\* No country, no device, a blank search text and the date range at
\* (min_date, max_date).
EmptyPredicateSet(d, w) ==
    /\ w.country_filter = {}
    /\ w.device_filter = {}
    /\ Blank(w.query_search)
    /\ w.is_tuple
    /\ w.start_date = min_date(d)
    /\ w.end_date = max_date(d)

FilterStep == prog = "app" /\ pc = "filters" /\ pc' # "filters"

\* C8: filtering leaves the frame it filters as it was, and with the empty
\* predicate set its result is that frame: every row, in order.
C8_EmptyPredicateSet ==
    [][FilterStep =>
        /\ df' = df
        /\ EmptyPredicateSet(df, widgets) => df_filt' = Some(df)]_vars

\* C8 witness: two different events on two dates went through the filter
\* with the empty predicate set, the search text being a space.
C8_BothKept ==
    /\ prog = "app"
    /\ pc = "summary"
    /\ Len(df.rows) = 2
    /\ df.rows[1] # df.rows[2]
    /\ min_date(df) < max_date(df)
    /\ EmptyPredicateSet(df, widgets)
    /\ widgets.query_search = " "
    /\ df_filt = Some(df)

CountOnes(d, c) == Cardinality({k \in DOMAIN d.rows : d.rows[k][c] = 1})

RECURSIVE TotalOf(_, _, _)
TotalOf(d, c, k) == IF k = 0 THEN 0 ELSE d.rows[k][c] + TotalOf(d, c, k - 1)

\* The scenario: a clicked and purchased event of revenue 90 and an event
\* neither clicked nor purchased.
Scenario(d) ==
    /\ Len(d.rows) = 2
    /\ d.rows[1].clicked = 1 /\ d.rows[1].purchased = 1
    /\ d.rows[1].revenue = 9000
    /\ d.rows[2].clicked = 0 /\ d.rows[2].purchased = 0
    /\ d.rows[2].revenue = 0

\* C9 as stated: the rates are the fractions count/total_searches, and
\* there is a revenue_per_search.
C9_RatesAreFractions ==
    metrics # None =>
        LET m == metrics[1]
            d == df_filt[1]
        IN  /\ m.total_searches = Len(d.rows)
            /\ FractionEq(m.click_through_rate,
                          Fraction(CountOnes(d, "clicked"), Len(d.rows)))
            /\ FractionEq(m.purchase_rate,
                          Fraction(CountOnes(d, "purchased"), Len(d.rows)))
            /\ m.total_revenue = TotalOf(d, "revenue", Len(d.rows))
            /\ "revenue_per_search" \in DOMAIN m

\* C9 amended: on a non-empty event set total_searches is the number of
\* events, click_through_rate and purchase_rate are the percentages
\* 100 * count / total_searches, total_revenue is the sum of revenue, and
\* no revenue_per_search is computed; the scenario gives 50, 50 and 90.
C9_RatesArePercentages ==
    metrics # None =>
        LET m == metrics[1]
            d == df_filt[1]
        IN  /\ Len(d.rows) > 0
            /\ m.total_searches = Len(d.rows)
            /\ FractionEq(m.click_through_rate,
                          Fraction(100 * CountOnes(d, "clicked"), Len(d.rows)))
            /\ FractionEq(m.purchase_rate,
                          Fraction(100 * CountOnes(d, "purchased"), Len(d.rows)))
            /\ m.total_revenue = TotalOf(d, "revenue", Len(d.rows))
            /\ "revenue_per_search" \notin DOMAIN m
            /\ Scenario(d) =>
                /\ FractionEq(m.click_through_rate, Fraction(50, 1))
                /\ FractionEq(m.purchase_rate, Fraction(50, 1))
                /\ m.total_revenue = 9000

\* C9 witness: the metrics of the scenario have been computed.
C9_ScenarioDone ==
    /\ prog = "app"
    /\ pc = "done"
    /\ metrics # None
    /\ Scenario(df_filt[1])

\* C10: every timestamp of a call with days_back >= 0 lies between
\* now - days_back days and now, now being the clock the call read.
C10_TimestampRange ==
    (prog = "generate_data" /\ days_back >= 0) =>
        \A r \in Range(records) :
            /\ now - days_back * MinutesPerDay <= r.timestamp
            /\ r.timestamp <= now

=============================================================================
